---------------------------- MODULE Spec2Model ----------------------------
(* A model of the MicroBlocks VM runtime (src/vm/runtime.c): the task     *)
(* table, the chunk table with its persistent log, the circular output    *)
(* buffer and the framed receiver.  Every C function is an operator from  *)
(* a runtime record (the C globals) to the runtime record it leaves; the  *)
(* actions apply those operators to the variables.                        *)
EXTENDS Integers, Sequences, FiniteSets, TLC

VARIABLES tasks, taskCount, chunks, log, vmVars, outBuf, outBufStart, outBufEnd,
          rcvBuf, rcvByteCount, lastRcvTime, wire, queued, frames, calls,
          inbox, got, now

vars == <<tasks, taskCount, chunks, log, vmVars, outBuf, outBufStart, outBufEnd,
          rcvBuf, rcvByteCount, lastRcvTime, wire, queued, frames, calls,
          inbox, got, now>>

(**************************************************************************)
(* Bounds of the model.  MAX_TASKS and MAX_CHUNKS are set in interp.h,    *)
(* and OUTBUF_SIZE is 1024 in runtime.c:180; the model keeps the names    *)
(* and the code's arithmetic and scales the sizes down.                   *)
(**************************************************************************)
MAX_TASKS == 2

MAX_CHUNKS == 2

MAX_VARS == 2

\* RCVBUF_SIZE is 1024 in runtime.c:430
RCVBUF_SIZE == 12

\* OUTBUF_SIZE is 2^OutBufBits ("must be a power of 2!")
OutBufBits == 5

\* most frames queued after Init in one behaviour
MaxFrames == 2

\* most records appended to the persistent log in one behaviour
MaxLog == 2

OUTBUF_SIZE == 2 ^ OutBufBits

OUTBUF_MASK == OUTBUF_SIZE - 1

(**************************************************************************)
(* Identifiers of interp.h and persist.h (not among the source files):    *)
(* message types of the wire protocol, chunk types, task status, record   *)
(* types.                                                                 *)
(**************************************************************************)
chunkCodeMsg == 1

deleteChunkMsg == 2

startChunkMsg == 3

stopChunkMsg == 4

startAllMsg == 5

stopAllMsg == 6

deleteAllCodeMsg == 14

taskStartedMsg == 16

taskDoneMsg == 17

taskReturnedValueMsg == 18

taskErrorMsg == 19

outputValueMsg == 20

pingMsg == 26

broadcastMsg == 27

chunkAttributeMsg == 28

unusedChunk == 0

startHat == 4

whenConditionHat == 5

broadcastHat == 6

unusedTask == 0

running == 1

PERSISTENT_HEADER_WORDS == 2

\* persistent record types
chunkCode == 10

chunkAttribute == 11

chunkDeleted == 19

\* opcode of the pushLiteral instruction, CMD(w) = w & 0xFF, ARG(w) = w >> 8
pushLiteral == 4

NULL == 0

(**************************************************************************)
(* Helpers on bytes and sequences.                                        *)
(**************************************************************************)
Byte(n) == n % 256

\* x & OUTBUF_MASK on a two's complement int, OUTBUF_SIZE a power of two
MaskOut(x) == x % OUTBUF_SIZE

RECURSIVE Flatten(_)
Flatten(ss) == IF ss = <<>> THEN <<>> ELSE Head(ss) \o Flatten(Tail(ss))

IsPrefix(a, b) == Len(a) <= Len(b) /\ SubSeq(b, 1, Len(a)) = a

\* the C string literals of runtime.c, as bytes
StrNoFreeTask == <<78,111,32,102,114,101,101,32,116,97,115,107,32,101,110,116,114,105,101,115>>

StrAllStopped == <<65,108,108,32,116,97,115,107,115,32,115,116,111,112,112,101,100>>

(**************************************************************************)
(* The runtime record: the C globals (vmVars is the array vars), and the   *)
(* history variables that the code does not have: wire, the bytes the     *)
(* host accepted; queued, every byte queueByte stored; frames, every      *)
(* message sendMessage or sendAttributeMessage queued since Init, each    *)
(* tagged with the task run that produced it; calls, the handlers the     *)
(* dispatcher invoked.  Of the surroundings: inbox, the bytes the IDE     *)
(* sent that readBytes has not returned yet; got, the bytes it returned;  *)
(* now, the value of microsecs().                                         *)
(**************************************************************************)
RT == [tasks |-> tasks, taskCount |-> taskCount, chunks |-> chunks, log |-> log,
       vars |-> vmVars,
       outBuf |-> outBuf, outBufStart |-> outBufStart, outBufEnd |-> outBufEnd,
       rcvBuf |-> rcvBuf, rcvByteCount |-> rcvByteCount, lastRcvTime |-> lastRcvTime,
       wire |-> wire, queued |-> queued, frames |-> frames, calls |-> calls]

SetRT(s) ==
    /\ tasks' = s.tasks
    /\ taskCount' = s.taskCount
    /\ chunks' = s.chunks
    /\ log' = s.log
    /\ vmVars' = s.vars
    /\ outBuf' = s.outBuf
    /\ outBufStart' = s.outBufStart
    /\ outBufEnd' = s.outBufEnd
    /\ rcvBuf' = s.rcvBuf
    /\ rcvByteCount' = s.rcvByteCount
    /\ lastRcvTime' = s.lastRcvTime
    /\ wire' = s.wire
    /\ queued' = s.queued
    /\ frames' = s.frames
    /\ calls' = s.calls

\* memset(&tasks[i], 0, sizeof(Task)); run is the history tag of the entry
ZeroTask == [status |-> unusedTask, taskChunkIndex |-> 0, currentChunkIndex |-> 0,
             code |-> NULL, ip |-> 0, sp |-> 0, fp |-> 0,
             run |-> [room |-> FALSE, pos |-> 0]]

\* a variable slot of the zeroed static array: the OBJ whose word is 0
ZeroObj == [t |-> "zero", v |-> 0]

ZeroChunk == [chunkType |-> unusedChunk, code |-> NULL]

NoRun == [src |-> "none", room |-> FALSE, pos |-> 0]

RunOf(t) == [src |-> "run", room |-> t.run.room, pos |-> t.run.pos]

(**************************************************************************)
(* Output ring (runtime.c:179-234).                                       *)
(**************************************************************************)
OUTBUF_BYTES(s) == MaskOut(s.outBufEnd - s.outBufStart)

\* the test of the free room left out
hasOutputSpaceAlways(s, byteCount) == TRUE

hasOutputSpace(s, byteCount) == (OUTBUF_MASK - OUTBUF_BYTES(s)) > byteCount

queueByte(s, aByte) ==
    [s EXCEPT !.outBuf[s.outBufEnd] = Byte(aByte),
              !.outBufEnd = MaskOut(s.outBufEnd + 1),
              !.queued = Append(s.queued, Byte(aByte))]

RECURSIVE queueBytes(_, _)
queueBytes(s, bs) ==
    IF bs = <<>> THEN s ELSE queueBytes(queueByte(s, Head(bs)), Tail(bs))

\* a byte the host refused is passed over
sendNextByteSkipsRefused(s, accepted) ==
    IF s.outBufStart # s.outBufEnd
    THEN [s EXCEPT !.wire = IF accepted THEN Append(s.wire, s.outBuf[s.outBufStart]) ELSE s.wire,
                   !.outBufStart = MaskOut(s.outBufStart + 1)]
    ELSE s

\* sendByte(b) returned accepted (1) or not
sendNextByte(s, accepted) ==
    IF s.outBufStart # s.outBufEnd /\ accepted
    THEN [s EXCEPT !.wire = Append(s.wire, s.outBuf[s.outBufStart]),
                   !.outBufStart = MaskOut(s.outBufStart + 1)]
    ELSE s

\* the bytes sendMessage queues for a short message (data = NULL)
ShortFrame(msgType, chunkIndex) == <<250, Byte(msgType), Byte(chunkIndex)>>

\* the bytes sendMessage queues for a message with data
LongFrame(msgType, chunkIndex, data) ==
    <<251, Byte(msgType), Byte(chunkIndex), Len(data) % 256, (Len(data) \div 256) % 256>>
    \o data

NoData == <<-1>>

FrameBytes(msgType, chunkIndex, data) ==
    IF data = NoData THEN ShortFrame(msgType, chunkIndex)
    ELSE LongFrame(msgType, chunkIndex, data)

\* history: s0 is the record before the frame's bytes were queued
Note(s0, s, msgType, chunkIndex, data, by) ==
    [s EXCEPT !.frames = Append(s.frames,
        [msgType |-> msgType, chunkIndex |-> chunkIndex, data |-> data, by |-> by,
         at |-> Len(s0.queued) + 1, n |-> Len(s.queued) - Len(s0.queued)])]

\* data = NoData stands for the NULL data pointer; by is the history tag
sendMessage(s, msgType, chunkIndex, data, by) ==
    IF data = NoData
    THEN IF ~hasOutputSpace(s, 3) THEN s  \* no space; drop message
         ELSE Note(s, queueBytes(s, ShortFrame(msgType, chunkIndex)),
                   msgType, chunkIndex, data, by)
    ELSE LET totalBytes == 5 + Len(data)
         IN IF ~hasOutputSpace(s, totalBytes) THEN s  \* no space; drop message
            ELSE Note(s, queueBytes(s, LongFrame(msgType, chunkIndex, data)),
                      msgType, chunkIndex, data, by)

\* outputString without the type byte before the string
outputStringNoType(s, str) ==
    LET byteCount == IF Len(str) > 199 THEN 199 ELSE Len(str)
    IN sendMessage(s, outputValueMsg, 255, SubSeq(str, 1, byteCount), NoRun)

outputString(s, str) ==
    LET byteCount == IF Len(str) > 199 THEN 199 ELSE Len(str)
    IN sendMessage(s, outputValueMsg, 255, <<2>> \o SubSeq(str, 1, byteCount), NoRun)


(**************************************************************************)
(* Persistent store (persist.h): an append-only log of records.  A record *)
(* pointer is the record's position in the log, NULL is 0.  The body      *)
(* holds (byteCount + 3) / 4 words; the bytes that pad the last word are  *)
(* kept as 0.                                                             *)
(**************************************************************************)
PadWords(bs) ==
    bs \o [k \in 1..((4 - (Len(bs) % 4)) % 4) |-> 0]

appendPersistentRecord(s, recordType, id, extra, byteCount, data) ==
    LET n == IF byteCount < 0 THEN 0 ELSE byteCount
    IN [s EXCEPT !.log = Append(s.log,
          [recType |-> recordType, id |-> id, extra |-> extra,
           body |-> PadWords(SubSeq(data, 1, n))])]

\* *(record + 1): the word count of the record's body
recordWords(s, p) == Len(s.log[p].body) \div 4

(**************************************************************************)
(* Task Ops (runtime.c:27-95).                                            *)
(**************************************************************************)
TaskIx == 0..(MAX_TASKS - 1)

ChunkIx == 0..(MAX_CHUNKS - 1)

\* a pointer that is neither NULL nor a record: what a read past the end
\* of chunks[] may yield
WildPtr == -1

initTasks(s) == [s EXCEPT !.tasks = [i \in TaskIx |-> ZeroTask], !.taskCount = 0]

\* chunks[chunkIndex].code; chunkIndex is a uint8 and is not checked
\* against MAX_CHUNKS, wild is what the read past the table yields
chunkCodeOf(s, chunkIndex, wild) ==
    IF chunkIndex \in ChunkIx THEN s.chunks[chunkIndex].code ELSE wild

\* alreadyRunning with a scan that stops one entry short
alreadyRunningOffByOne(s, chunkIndex) ==
    \E i \in 0..(s.taskCount - 2) :
        chunkIndex = s.tasks[i].taskChunkIndex /\ s.tasks[i].status # 0

\* alreadyRunning without the scan
alreadyRunningNever(s, chunkIndex) == FALSE

\* the loop of lines 36-40: an entry below taskCount runs chunkIndex
alreadyRunning(s, chunkIndex) ==
    \E i \in 0..(s.taskCount - 1) :
        chunkIndex = s.tasks[i].taskChunkIndex /\ s.tasks[i].status # 0

\* announceStart that sends no taskStartedMsg
announceNothing(s, chunkIndex, by) == s

\* line 58
announceStart(s, chunkIndex, by) ==
    sendMessage(s, taskStartedMsg, chunkIndex, NoData, by)

startTaskForChunkW(s, chunkIndex, wild) ==
    IF alreadyRunning(s, chunkIndex)
    THEN s  \* already running
    ELSE LET free == {i \in TaskIx : s.tasks[i].status = unusedTask}
         IN IF free = {} THEN outputString(s, StrNoFreeTask)
            ELSE LET i == CHOOSE j \in free : \A k \in free : j <= k
                     s1 == [s EXCEPT
                              !.tasks[i] = [ZeroTask EXCEPT
                                  !.status = running,
                                  !.taskChunkIndex = chunkIndex,
                                  !.currentChunkIndex = chunkIndex,
                                  !.code = chunkCodeOf(s, chunkIndex, wild),
                                  !.ip = PERSISTENT_HEADER_WORDS,
                                  !.sp = 0,
                                  !.fp = 0],
                              !.taskCount = IF i >= s.taskCount THEN i + 1
                                            ELSE s.taskCount]
                     \* history: had the ring room for the taskStartedMsg,
                     \* and which frame it is (0: none was queued)
                     room == hasOutputSpace(s1, 3)
                     s2 == announceStart(s1, chunkIndex,
                              [src |-> "start", room |-> room,
                               pos |-> Len(s1.frames) + 1])
                     pos == IF Len(s2.frames) > Len(s1.frames)
                            THEN Len(s2.frames) ELSE 0
                 IN [s2 EXCEPT !.tasks[i].run = [room |-> room, pos |-> pos]]

startTaskForChunk(s, chunkIndex) == startTaskForChunkW(s, chunkIndex, NULL)

\* stopTaskForChunk with taskCount decremented whichever entry is cleared
stopTaskForChunkDecrements(s, chunkIndex) ==
    LET hit == {i \in TaskIx : chunkIndex = s.tasks[i].taskChunkIndex}
    IN IF hit = {} THEN s
       ELSE LET i == CHOOSE j \in hit : \A k \in hit : j <= k
                by == IF s.tasks[i].status # unusedTask THEN RunOf(s.tasks[i])
                      ELSE NoRun
                s1 == [s EXCEPT !.tasks[i] = ZeroTask, !.taskCount = s.taskCount - 1]
            IN sendMessage(s1, taskDoneMsg, chunkIndex, NoData, by)

stopTaskForChunk(s, chunkIndex) ==
    LET hit == {i \in TaskIx : chunkIndex = s.tasks[i].taskChunkIndex}
    IN IF hit = {} THEN s  \* no task for chunkIndex
       ELSE LET i == CHOOSE j \in hit : \A k \in hit : j <= k
                by == IF s.tasks[i].status # unusedTask THEN RunOf(s.tasks[i])
                      ELSE NoRun
                s1 == [s EXCEPT !.tasks[i] = ZeroTask,
                                !.taskCount = IF i = s.taskCount - 1
                                              THEN s.taskCount - 1
                                              ELSE s.taskCount]
            IN sendMessage(s1, taskDoneMsg, chunkIndex, NoData, by)

RECURSIVE stopAllLoop(_, _)
stopAllLoop(s, t) ==
    IF t >= s.taskCount THEN s
    ELSE stopAllLoop(
           IF s.tasks[t].status # 0
           THEN sendMessage(s, taskDoneMsg, s.tasks[t].taskChunkIndex, NoData,
                            RunOf(s.tasks[t]))
           ELSE s,
           t + 1)

stopAllTasks(s) == initTasks(stopAllLoop(s, 0))

RECURSIVE startAllLoop(_, _)
startAllLoop(s, i) ==
    IF i >= MAX_CHUNKS THEN s
    ELSE startAllLoop(
           IF s.chunks[i].chunkType \in {startHat, whenConditionHat}
           THEN startTaskForChunk(s, i) ELSE s,
           i + 1)

\* startAll without the stop of the running tasks
startAllKeepsTasks(s) == startAllLoop(s, 0)

startAll(s) == startAllLoop(stopAllTasks(s), 0)

(**************************************************************************)
(* Broadcast (runtime.c:97-118).  The code of a chunk is the body of its  *)
(* record, read as little-endian 32-bit words; a word past the record     *)
(* reads as 0.                                                            *)
(**************************************************************************)
CodeByte(s, p, k) ==
    IF p \in 1..Len(s.log) /\ k + 1 \in 1..Len(s.log[p].body)
    THEN s.log[p].body[k + 1] ELSE 0

\* the four bytes of word w of the code, low byte first
CodeWord(s, p, w) ==
    <<CodeByte(s, p, 4 * w), CodeByte(s, p, 4 * w + 1),
      CodeByte(s, p, 4 * w + 2), CodeByte(s, p, 4 * w + 3)>>

\* CMD(n) is n & 0xFF
CMD(w) == w[1]

\* ARG(n) is n >> 8 on a signed 32-bit word
ARG(w) ==
    LET u == w[2] + 256 * w[3] + 65536 * w[4]
    IN IF w[4] >= 128 THEN u - 16777216 ELSE u

RECURSIVE strlenAt(_, _, _)
strlenAt(s, p, k) ==
    IF CodeByte(s, p, k) = 0 THEN 0 ELSE 1 + strlenAt(s, p, k + 1)

\* broadcastMatches without the comparison of the lengths
broadcastMatchesPrefix(s, chunkIndex, msg) ==
    LET p == s.chunks[chunkIndex].code
        w == CodeWord(s, p, 1)
        hatArg == 4 * (1 + ARG(w) + 1 + 1)
    IN IF pushLiteral # CMD(w) THEN FALSE
       ELSE \A i \in 0..(Len(msg) - 1) : CodeByte(s, p, hatArg + i) = msg[i + 1]

broadcastMatches(s, chunkIndex, msg) ==
    LET p == s.chunks[chunkIndex].code
        w == CodeWord(s, p, 1)         \* skip "initLocals" instruction
        \* obj2str((OBJ) code + ARG(*code) + 1): the bytes after the header word
        hatArg == 4 * (1 + ARG(w) + 1 + 1)
    IN IF pushLiteral # CMD(w) THEN FALSE
       ELSE IF strlenAt(s, p, hatArg) # Len(msg) THEN FALSE
       ELSE \A i \in 0..(Len(msg) - 1) : CodeByte(s, p, hatArg + i) = msg[i + 1]

RECURSIVE broadcastLoop(_, _, _)
broadcastLoop(s, msg, i) ==
    IF i >= MAX_CHUNKS THEN s
    ELSE broadcastLoop(
           IF broadcastHat = s.chunks[i].chunkType /\ broadcastMatches(s, i, msg)
           THEN startTaskForChunk(s, i) ELSE s,
           msg, i + 1)

startReceiversOfBroadcast(s, msg) == broadcastLoop(s, msg, 0)

(**************************************************************************)
(* Store and Delete Ops (runtime.c:122-165).  data holds the bytes of the *)
(* receive buffer from offset 5 on: the body and what follows it.         *)
(**************************************************************************)
\* storeCodeChunk that leaves the code pointer of a chunk in use as it is
storeCodeChunkKeepsOld(s, chunkIndex, byteCount, data) ==
    IF chunkIndex >= MAX_CHUNKS THEN s
    ELSE LET chunkType == data[1]
             s1 == appendPersistentRecord(s, chunkCode, chunkIndex, chunkType,
                                          byteCount - 1, Tail(data))
         IN [s1 EXCEPT !.chunks[chunkIndex] =
                [chunkType |-> chunkType,
                 code |-> IF s.chunks[chunkIndex].code # NULL
                          THEN s.chunks[chunkIndex].code ELSE Len(s1.log)]]

storeCodeChunk(s, chunkIndex, byteCount, data) ==
    IF chunkIndex >= MAX_CHUNKS THEN s
    ELSE LET chunkType == data[1]  \* first byte is the chunk type
             s1 == appendPersistentRecord(s, chunkCode, chunkIndex, chunkType,
                                          byteCount - 1, Tail(data))
         IN [s1 EXCEPT !.chunks[chunkIndex] =
                \* the pointer appendPersistentRecord returned: the end of the log
                [chunkType |-> chunkType, code |-> Len(s1.log)]]

deleteCodeChunk(s, chunkIndex) ==
    IF chunkIndex >= MAX_CHUNKS THEN s
    ELSE LET s1 == stopTaskForChunk(s, chunkIndex)
             s2 == [s1 EXCEPT !.chunks[chunkIndex] = ZeroChunk]
         IN appendPersistentRecord(s2, chunkDeleted, chunkIndex, 0, 0, <<>>)

RECURSIVE deleteAllLoop(_, _)
deleteAllLoop(s, chunkIndex) ==
    IF chunkIndex >= MAX_CHUNKS THEN s
    ELSE deleteAllLoop(
           appendPersistentRecord(s, chunkDeleted, chunkIndex, 0, 0, <<>>),
           chunkIndex + 1)

\* deleteAllChunks with a chunkDeleted record for the chunks in use only
deleteAllChunksInUse(s) ==
    LET F[n \in 0..MAX_CHUNKS] ==
            IF n = 0 THEN stopAllTasks(s)
            ELSE IF s.chunks[n - 1].chunkType # unusedChunk
                 THEN appendPersistentRecord(F[n - 1], chunkDeleted, n - 1, 0, 0, <<>>)
                 ELSE F[n - 1]
    IN [F[MAX_CHUNKS] EXCEPT !.chunks = [i \in ChunkIx |-> ZeroChunk]]

deleteAllChunks(s) ==
    [deleteAllLoop(stopAllTasks(s), 0) EXCEPT !.chunks = [i \in ChunkIx |-> ZeroChunk]]


(**************************************************************************)
(* Value messages (runtime.c:236-316).  A value is a tagged record:       *)
(* [t |-> "int", v |-> n], [t |-> "str", v |-> bytes], [t |-> "bool",     *)
(* v |-> b], [t |-> "bytes", v |-> bytes of whole words]; any other tag   *)
(* (an array) is not sent.                                                *)
(**************************************************************************)
\* the four bytes of a 32-bit two's complement int, low byte first
Int32LE(n) ==
    <<n % 256, (n \div 256) % 256, (n \div 65536) % 256, (n \div 16777216) % 256>>

\* the data sendValueMessage hands to sendMessage, <<>> when it sends
\* nothing.  A string is sent up to its first zero byte (strlen) and, like
\* a byte array, cut to the buffer of 500 bytes less the type byte.
valueBody(value) ==
    LET maxBytes == 500 - 1  \* leave room for type bytes
        clip(bs) == SubSeq(bs, 1, IF Len(bs) > maxBytes THEN maxBytes ELSE Len(bs))
        zeros(bs) == {i \in 1..Len(bs) : bs[i] = 0}
        strlen(bs) == IF zeros(bs) = {} THEN Len(bs)
                      ELSE (CHOOSE i \in zeros(bs) : \A j \in zeros(bs) : i <= j) - 1
    IN CASE value.t = "int" -> <<1>> \o Int32LE(value.v)
         [] value.t = "str" -> <<2>> \o clip(SubSeq(value.v, 1, strlen(value.v)))
         [] value.t = "bool" -> <<3, IF value.v THEN 1 ELSE 0>>
         [] value.t = "bytes" -> <<4>> \o clip(value.v)
         [] OTHER -> <<>>

sendValueMessage(s, msgType, chunkOrVarIndex, value, by) ==
    IF valueBody(value) = <<>> THEN s
    ELSE sendMessage(s, msgType, chunkOrVarIndex, valueBody(value), by)

outputValue(s, value, chunkIndex, by) ==
    sendValueMessage(s, outputValueMsg, chunkIndex, value, by)

sendTaskDone(s, chunkIndex, by) == sendMessage(s, taskDoneMsg, chunkIndex, NoData, by)

sendTaskError(s, chunkIndex, errorCode, where, by) ==
    sendMessage(s, taskErrorMsg, chunkIndex, <<Byte(errorCode)>> \o Int32LE(where), by)

sendTaskReturnValue(s, chunkIndex, returnValue, by) ==
    sendValueMessage(s, taskReturnedValueMsg, chunkIndex, returnValue, by)

(**************************************************************************)
(* Retrieving source code and attributes (runtime.c:130-134, 350-426).    *)
(* Attribute ids are those of interp.h.                                   *)
(**************************************************************************)
sourcePosition == 0

snapSourceString == 1

gpSourceString == 2

ATTRIBUTE_COUNT == 3

storeChunkAttribute(s, chunkIndex, byteCount, data) ==
    LET attributeID == data[1]
    IN IF chunkIndex >= MAX_CHUNKS \/ attributeID >= ATTRIBUTE_COUNT THEN s
       ELSE appendPersistentRecord(s, chunkAttribute, chunkIndex, attributeID,
                                   byteCount - 1, Tail(data))

\* the loop sends a byte per turn while bytesNeeded exceeds the free room;
\* a turn in which the host refuses the byte changes nothing, so with a
\* host that keeps accepting the loop ends in the state where just enough
\* bytes were sent.  With an empty ring and bytesNeeded > OUTBUF_MASK the
\* loop does not end.
RECURSIVE waitForOutbufBytes(_, _)
waitForOutbufBytes(s, bytesNeeded) ==
    IF bytesNeeded > (OUTBUF_MASK - OUTBUF_BYTES(s)) /\ s.outBufStart # s.outBufEnd
    THEN waitForOutbufBytes(sendNextByte(s, TRUE), bytesNeeded)
    ELSE s

\* persistentRecord is a position in the log, NULL is 0
sendAttributeMessage(s, chunkIndex, attributeID, persistentRecord) ==
    IF persistentRecord = NULL THEN s  \* NULL persistentRecord; do nothing
    ELSE LET wordCount == recordWords(s, persistentRecord)
             bodyBytes == 1 + (4 * wordCount)
             s1 == waitForOutbufBytes(s, 5 + bodyBytes)
             body == <<Byte(attributeID)>> \o s.log[persistentRecord].body
             s2 == queueBytes(s1, <<251, Byte(chunkAttributeMsg), Byte(chunkIndex),
                                    bodyBytes % 256, (bodyBytes \div 256) % 256>> \o body)
         IN Note(s1, s2, chunkAttributeMsg, chunkIndex, body, NoRun)

\* recordAfter(p): the record after p in the log, the first one after NULL
recordAfter(s, p) == IF p < Len(s.log) THEN p + 1 ELSE NULL

\* the scan of the log in sendAllCode: a is the record of the three
\* pointers position, snapSource, gpSource
RECURSIVE scanAttributes(_, _, _, _)
scanAttributes(s, chunkID, p, a) ==
    IF p = NULL THEN a
    ELSE LET r == s.log[p]
             a1 == IF r.id = chunkID /\ r.recType = chunkAttribute
                   THEN [position |-> IF r.extra = sourcePosition THEN p ELSE a.position,
                         snapSource |-> IF r.extra = snapSourceString THEN p ELSE a.snapSource,
                         gpSource |-> IF r.extra = gpSourceString THEN p ELSE a.gpSource]
                   ELSE a
             a2 == IF r.id = chunkID /\ r.recType = chunkDeleted
                   THEN [position |-> NULL, snapSource |-> NULL, gpSource |-> NULL]
                   ELSE a1
         IN scanAttributes(s, chunkID, recordAfter(s, p), a2)

\* the body of the loop of sendAllCode for one chunkID
sendChunk(s, chunkID) ==
    LET code == s.chunks[chunkID].code
    IN IF code = NULL THEN s  \* skip unused chunk entry
       ELSE LET words == recordWords(s, code)
                s1 == waitForOutbufBytes(s, 5 + (4 * words))
                s2 == sendMessage(s1, chunkCodeMsg, chunkID, s.log[code].body, NoRun)
                a == scanAttributes(s, chunkID, recordAfter(s, NULL),
                         [position |-> NULL, snapSource |-> NULL, gpSource |-> NULL])
                s3 == sendAttributeMessage(s2, chunkID, snapSourceString, a.snapSource)
                s4 == sendAttributeMessage(s3, chunkID, gpSourceString, a.gpSource)
            IN sendAttributeMessage(s4, chunkID, sourcePosition, a.position)

RECURSIVE sendAllLoop(_, _)
sendAllLoop(s, chunkID) ==
    IF chunkID >= MAX_CHUNKS THEN s
    ELSE sendAllLoop(sendChunk(s, chunkID), chunkID + 1)

sendAllCode(s) == sendAllLoop(s, 0)

\* every waitForOutbufBytes of sendAllCode returns: no record of the log
\* that it may send is larger than the ring
sendAllReturns(s) ==
    \A p \in 1..Len(s.log) : 5 + 1 + Len(s.log[p].body) <= OUTBUF_MASK

(**************************************************************************)
(* Variables, names and comments (runtime.c:136-147, 167-175, 318-348).   *)
(* Message and record types are those of interp.h and persist.h.          *)
(**************************************************************************)
getVarMsg == 7

setVarMsg == 8

deleteVarMsg == 10

deleteCommentMsg == 11

getVersionMsg == 12

getAllCodeMsg == 13

systemResetMsg == 15

varValueMsg == 21

versionMsg == 22

varNameMsg == 29

commentMsg == 30

commentPositionMsg == 31

varName == 21

varDeleted == 29

comment == 31

commentPosition == 32

commentDeleted == 39

storeVarName(s, varIndex, byteCount, data) ==
    appendPersistentRecord(s, varName, varIndex, 0, byteCount, data)

storeComment(s, commentIndex, byteCount, data) ==
    appendPersistentRecord(s, comment, commentIndex, 0, byteCount, data)

\* a variant that stores a position of any length
storeCommentPositionAnyLength(s, commentIndex, byteCount, data) ==
    appendPersistentRecord(s, commentPosition, commentIndex, 0, byteCount, data)

storeCommentPosition(s, commentIndex, byteCount, data) ==
    IF byteCount # 4 THEN s
    ELSE appendPersistentRecord(s, commentPosition, commentIndex, 0, byteCount, data)

deleteVar(s, varIndex) ==
    IF varIndex >= MAX_VARS THEN s
    ELSE appendPersistentRecord([s EXCEPT !.vars[varIndex] = [t |-> "int", v |-> 0]],
                                varDeleted, varIndex, 0, 0, <<>>)

deleteComment(s, commentIndex) ==
    appendPersistentRecord(s, commentDeleted, commentIndex, 0, 0, <<>>)

sendVariableValue(s, varID) ==
    IF varID >= 0 /\ varID < MAX_VARS
    THEN sendValueMessage(s, varValueMsg, varID, s.vars[varID], NoRun)
    ELSE s

\* the four bytes read as an unsigned number
Int32OfUnsigned(b1, b2, b3, b4) ==
    b1 + (256 * b2) + (65536 * b3) + (16777216 * (b4 % 128))

\* (data[4] << 24) | (data[3] << 16) | (data[2] << 8) | data[1] as an int
Int32Of(b1, b2, b3, b4) ==
    b1 + (256 * b2) + (65536 * b3) + (16777216 * (IF b4 >= 128 THEN b4 - 256 ELSE b4))

\* data is the bytes from the pointer on: data[k] of the code is data[k + 1]
setVariableValue(s, varID, byteCount, data) ==
    IF varID >= 0 /\ varID < MAX_VARS
    THEN LET type == data[1]
         IN CASE type = 1 ->
                   [s EXCEPT !.vars[varID] =
                       [t |-> "int", v |-> Int32Of(data[2], data[3], data[4], data[5])]]
              [] type = 2 ->
                   IF byteCount >= 1
                   THEN [s EXCEPT !.vars[varID] = [t |-> "str", v |-> SubSeq(data, 2, byteCount)]]
                   ELSE s
              [] type = 3 ->
                   [s EXCEPT !.vars[varID] = [t |-> "bool", v |-> data[2] # 0]]
              [] OTHER -> s
    ELSE s

\* " v021 Boardie" with the first byte set to 2: VM_VERSION and boardType()
StrVersion == <<2, 118, 48, 50, 49, 32, 66, 111, 97, 114, 100, 105, 101>>

sendVersionString(s) == sendMessage(s, versionMsg, 0, StrVersion, NoRun)

\* the reset hook of the board support; the model goes on with the state
systemReset(s) == s

(**************************************************************************)
(* Receiving messages from the IDE (runtime.c:430-593).  rcvBuf is the    *)
(* whole array: the bytes at rcvByteCount and after are what earlier      *)
(* messages left there.                                                   *)
(**************************************************************************)
\* the timeout of receiveTimeout, 20000 usecs, in the unit of the clock
RcvTimeout == 2

\* the clock of microsecs() wraps around at ClockWrap
ClockWrap == 8

\* history: the dispatcher invoked the handler fn
Call(s, fn, arg, n) == [s EXCEPT !.calls = Append(s.calls, [fn |-> fn, arg |-> arg, n |-> n])]

\* the index the for loop of skipToStartByteAfter stops at, or -1
RECURSIVE nextStartFrom(_, _)
nextStartFrom(s, i) ==
    IF i >= s.rcvByteCount THEN -1
    ELSE LET b == s.rcvBuf[i]
         IN IF b = 250 \/ b = 251
            THEN IF (i + 1) < s.rcvByteCount /\ (s.rcvBuf[i + 1] < 1 \/ s.rcvBuf[i + 1] > 32)
                 THEN nextStartFrom(s, i + 1)  \* illegal msg type; keep scanning
                 ELSE i
            ELSE nextStartFrom(s, i + 1)

\* a variant that lowers the count and leaves the bytes where they are
skipToStartByteAfterNoShift(s, startIndex) ==
    LET nextStart == nextStartFrom(s, startIndex)
    IN [s EXCEPT !.rcvByteCount = IF nextStart = -1 THEN 0 ELSE s.rcvByteCount - nextStart]

skipToStartByteAfter(s, startIndex) ==
    LET nextStart == nextStartFrom(s, startIndex)
    IN IF nextStart = -1
       THEN [s EXCEPT !.rcvByteCount = 0]  \* no start byte found; clear the entire buffer
       ELSE [s EXCEPT !.rcvBuf = [j \in 0..(RCVBUF_SIZE - 1) |->
                                     IF j < s.rcvByteCount - nextStart
                                     THEN s.rcvBuf[nextStart + j] ELSE s.rcvBuf[j]],
                      !.rcvByteCount = s.rcvByteCount - nextStart]

\* receiveTimeout sets lastRcvTime on a clock wrap: the record it leaves
receiveTimeoutSets(s, usecs) ==
    IF usecs < s.lastRcvTime THEN [s EXCEPT !.lastRcvTime = 0] ELSE s

\* and the value it returns
receiveTimeout(s, usecs) == (usecs - receiveTimeoutSets(s, usecs).lastRcvTime) > RcvTimeout

\* wild: what chunks[chunkIndex].code holds for a chunkIndex past the table
processShortMessage(s, usecs, wild) ==
    IF s.rcvByteCount < 3  \* message is not complete
    THEN IF receiveTimeout(s, usecs)
         THEN skipToStartByteAfter(receiveTimeoutSets(s, usecs), 1)
         ELSE receiveTimeoutSets(s, usecs)
    ELSE LET cmd == s.rcvBuf[1]
             chunkIndex == s.rcvBuf[2]
             c(fn) == Call(s, fn, chunkIndex, 0)
             s1 == CASE cmd = deleteChunkMsg -> deleteCodeChunk(c("deleteCodeChunk"), chunkIndex)
                     [] cmd = startChunkMsg -> startTaskForChunkW(c("startTaskForChunk"), chunkIndex,
                                                                 IF chunkIndex < MAX_CHUNKS THEN NULL ELSE wild)
                     [] cmd = stopChunkMsg -> stopTaskForChunk(c("stopTaskForChunk"), chunkIndex)
                     [] cmd = startAllMsg -> startAll(c("startAll"))
                     [] cmd = stopAllMsg -> outputString(stopAllTasks(c("stopAllTasks")), StrAllStopped)
                     [] cmd = getVarMsg -> sendVariableValue(c("sendVariableValue"), chunkIndex)
                     [] cmd = deleteVarMsg -> deleteVar(c("deleteVar"), chunkIndex)
                     [] cmd = deleteCommentMsg -> deleteComment(c("deleteComment"), chunkIndex)
                     [] cmd = getVersionMsg -> sendVersionString(c("sendVersionString"))
                     [] cmd = getAllCodeMsg -> sendAllCode(c("sendAllCode"))
                     [] cmd = deleteAllCodeMsg -> deleteAllChunks(c("deleteAllChunks"))
                     [] cmd = systemResetMsg -> systemReset(c("systemReset"))
                     [] cmd = pingMsg -> sendMessage(c("ping"), pingMsg, 0, NoData, NoRun)
                     [] OTHER -> s
         IN skipToStartByteAfter(s1, 3)

\* the handler of a long message, called with bodyBytes and &rcvBuf[5]
longHandler(s, cmd, chunkIndex, bodyBytes) ==
    LET data == [k \in 1..(RCVBUF_SIZE - 5) |-> s.rcvBuf[4 + k]]  \* &rcvBuf[5]
        c(fn) == Call(s, fn, chunkIndex, bodyBytes)
    IN CASE cmd = chunkCodeMsg -> storeCodeChunk(c("storeCodeChunk"), chunkIndex, bodyBytes, data)
         [] cmd = setVarMsg -> setVariableValue(c("setVariableValue"), chunkIndex, bodyBytes, data)
         [] cmd = broadcastMsg ->
                startReceiversOfBroadcast(c("startReceiversOfBroadcast"), SubSeq(data, 1, bodyBytes))
         [] cmd = chunkAttributeMsg -> storeChunkAttribute(c("storeChunkAttribute"), chunkIndex, bodyBytes, data)
         [] cmd = varNameMsg -> storeVarName(c("storeVarName"), chunkIndex, bodyBytes, data)
         [] cmd = commentMsg -> storeComment(c("storeComment"), chunkIndex, bodyBytes, data)
         [] cmd = commentPositionMsg ->
                storeCommentPosition(c("storeCommentPosition"), chunkIndex, bodyBytes, data)
         [] OTHER -> s

\* the terminator byte is not looked at
processLongMessageAnyLastByte(s, usecs) ==
    LET msgLength == (s.rcvBuf[4] * 256) + s.rcvBuf[3]
    IN IF s.rcvByteCount < 5 \/ s.rcvByteCount < 5 + msgLength
       THEN IF receiveTimeout(s, usecs)
            THEN skipToStartByteAfter(receiveTimeoutSets(s, usecs), 1)
            ELSE receiveTimeoutSets(s, usecs)
       ELSE skipToStartByteAfter(longHandler(s, s.rcvBuf[1], s.rcvBuf[2], msgLength - 1),
                                 5 + msgLength)

processLongMessage(s, usecs) ==
    LET msgLength == (s.rcvBuf[4] * 256) + s.rcvBuf[3]
    IN IF s.rcvByteCount < 5 \/ s.rcvByteCount < 5 + msgLength  \* message is not complete
       THEN IF receiveTimeout(s, usecs)
            THEN skipToStartByteAfter(receiveTimeoutSets(s, usecs), 1)
            ELSE receiveTimeoutSets(s, usecs)
       ELSE IF s.rcvBuf[5 + msgLength - 1] # 254  \* no terminator byte
            THEN skipToStartByteAfter(s, 1)
            ELSE skipToStartByteAfter(longHandler(s, s.rcvBuf[1], s.rcvBuf[2], msgLength - 1),
                                      5 + msgLength)

\* readBytes of the host stored bs at &rcvBuf[rcvByteCount]: the first call
\* and the calls of the while loop together; lastRcvTime is set in the loop,
\* which is entered when the first call returned a byte
readBytes(s, bs, usecs) ==
    [s EXCEPT !.rcvBuf = [j \in 0..(RCVBUF_SIZE - 1) |->
                             IF j >= s.rcvByteCount /\ j < s.rcvByteCount + Len(bs)
                             THEN bs[j - s.rcvByteCount + 1] ELSE s.rcvBuf[j]],
              !.rcvByteCount = s.rcvByteCount + Len(bs),
              !.lastRcvTime = IF Len(bs) > 0 THEN usecs ELSE s.lastRcvTime]

\* the dispatch on the first byte of the buffer
dispatchHead(s, usecs, wild) ==
    IF s.rcvByteCount = 0 THEN s
    ELSE LET firstByte == s.rcvBuf[0]
         IN IF firstByte = 250 THEN processShortMessage(s, usecs, wild)
            ELSE IF firstByte = 251 THEN processLongMessage(s, usecs)
            ELSE skipToStartByteAfter(s, 1)  \* bad message

processMessage(s, accepted, bs, usecs, wild) ==
    dispatchHead(readBytes(sendNextByte(s, accepted), bs, usecs), usecs, wild)

(**************************************************************************)
(* Inputs of the model.                                                   *)
(**************************************************************************)
\* the argument byte of a short message: every chunk index and one index
\* past the chunk table
ArgBytes == 0..MAX_CHUNKS

\* a start-hat chunk: type byte, then one code word
StartHatBody == <<startHat, 0, 0, 0, 0>>

\* a broadcast-hat chunk receiving "go": initLocals; pushLiteral 1; halt;
\* the literal's header word; the bytes of "go"
GoHatBody == <<broadcastHat, 16, 0, 0, 0,  pushLiteral, 1, 0, 0,  0, 0, 0, 0,
               4, 1, 0, 0,  103, 111, 0, 0>>

ChunkBodies == {StartHatBody, GoHatBody, <<whenConditionHat, 0, 0, 0, 0>>}

\* the bodies of a broadcast message: "go" and "g"
BroadcastBodies == {<<103, 111>>, <<103>>}

\* what the interpreter may report for a running task
TaskReports == {"value", "error", "return", "done"}

(**************************************************************************)
(* Init: the state after construction (the C statics are zero), except    *)
(* that the output ring may already hold ping replies the host has not    *)
(* accepted yet: n replies queued, d of their bytes sent.                 *)
(**************************************************************************)
RECURSIVE pings(_, _)
pings(s, n) ==
    IF n = 0 THEN s ELSE pings(sendMessage(s, pingMsg, 0, NoData, NoRun), n - 1)

RECURSIVE drain(_, _)
drain(s, d) == IF d = 0 THEN s ELSE drain(sendNextByte(s, TRUE), d - 1)

Pristine ==
    [tasks |-> [i \in TaskIx |-> ZeroTask], taskCount |-> 0,
     chunks |-> [i \in ChunkIx |-> ZeroChunk], log |-> <<>>,
     vars |-> [i \in 0..(MAX_VARS - 1) |-> ZeroObj],
     outBuf |-> [i \in 0..OUTBUF_MASK |-> 0], outBufStart |-> 0, outBufEnd |-> 0,
     rcvBuf |-> [i \in 0..(RCVBUF_SIZE - 1) |-> 0], rcvByteCount |-> 0, lastRcvTime |-> 0,
     wire |-> <<>>, queued |-> <<>>, frames |-> <<>>, calls |-> <<>>]

\* the ring after n ping replies were queued and d bytes were sent; the
\* histories start at Init: queued holds the bytes not sent yet
Prefilled(n, d) ==
    LET s == drain(pings(Pristine, n), d)
    IN [s EXCEPT !.frames = <<>>, !.wire = <<>>,
                 !.queued = SubSeq(s.queued, Len(s.wire) + 1, Len(s.queued))]

\* the variables hold the runtime record s; stream is what the IDE sends
InitWith(s, stream) ==
    /\ tasks = s.tasks
    /\ taskCount = s.taskCount
    /\ chunks = s.chunks
    /\ log = s.log
    /\ vmVars = s.vars
    /\ outBuf = s.outBuf
    /\ outBufStart = s.outBufStart
    /\ outBufEnd = s.outBufEnd
    /\ rcvBuf = s.rcvBuf
    /\ rcvByteCount = s.rcvByteCount
    /\ lastRcvTime = s.lastRcvTime
    /\ wire = s.wire
    /\ queued = s.queued
    /\ frames = s.frames
    /\ calls = s.calls
    /\ inbox = stream
    /\ got = <<>>
    /\ now = 0

\* the ring is empty, or FullPings ping replies have filled it and FullSent
\* of their bytes were sent, which leaves 3 bytes free: no frame fits, a
\* short one does after one more byte is sent; or every task entry was
\* taken by a startChunk while the ring was that full, and the host has
\* emptied the ring since
Init ==
    LET FullPings == (OUTBUF_MASK - 1) \div 3
        FullSent == (3 * FullPings) - (OUTBUF_MASK - 3)
        Started[n \in 0..MAX_TASKS] ==
            IF n = 0 THEN Prefilled(FullPings, FullSent)
            ELSE startTaskForChunk(Started[n - 1], n - 1)
        \* after as many calls of sendNextByte as the ring held bytes
        Busy == [Started[MAX_TASKS] EXCEPT !.outBufStart = Started[MAX_TASKS].outBufEnd,
                                           !.frames = <<>>, !.wire = <<>>, !.queued = <<>>]
    IN \E s \in {Prefilled(0, 0), Prefilled(FullPings, FullSent), Busy} : InitWith(s, <<>>)

(**************************************************************************)
(* Actions: one per message the dispatcher handles (the cases of          *)
(* processShortMessage and processLongMessage), one for the interpreter   *)
(* reporting on a task, one for the host taking a byte.                   *)
(**************************************************************************)
\* most bytes the host accepts in one behaviour
MaxWire == 1

Within(s) ==
    /\ Len(s.frames) <= MaxFrames
    /\ Len(s.wire) <= MaxWire

\* the log takes n more records
LogRoom(n) == Len(log) + n <= MaxLog

Do(s) ==
    /\ Within(s)
    /\ SetRT(s)
    /\ UNCHANGED <<inbox, got, now>>

DeleteChunk(c) == LogRoom(1) /\ Do(deleteCodeChunk(RT, c))

StartChunk(c) ==
    \E wild \in (IF c \in ChunkIx THEN {NULL} ELSE {NULL, WildPtr}) :
        Do(startTaskForChunkW(RT, c, wild))

StopChunk(c) == Do(stopTaskForChunk(RT, c))

StartAll == Do(startAll(RT))

StopAll == Do(outputString(stopAllTasks(RT), StrAllStopped))

\* the last operation on the log of a behaviour that has filled it
DeleteAllCode == LogRoom(0) /\ Do(deleteAllChunks(RT))

ChunkCode(c, body) ==
    LogRoom(1) /\ Do(storeCodeChunk(RT, c, Len(body), body \o <<254>>))

Broadcast(msg) == Do(startReceiversOfBroadcast(RT, msg))

\* the interpreter (interp.c, not among the source files) runs the task in
\* entry t and reports a value, an error, a returned value, or the end of
\* the task; at the end it marks the entry unused
TaskReport(t, what) ==
    /\ tasks[t].status # unusedTask
    /\ LET c == tasks[t].taskChunkIndex
           by == RunOf(tasks[t])
       IN CASE what = "value" ->
                 Do(outputValue(RT, [t |-> "int", v |-> 7], c, by))
            [] what = "error" ->
                 Do(sendTaskError(RT, c, 1, 0, by))
            [] what = "return" ->
                 Do(sendTaskReturnValue(RT, c, [t |-> "bool", v |-> TRUE], by))
            [] what = "done" ->
                 Do([sendTaskDone(RT, c, by) EXCEPT !.tasks[t].status = unusedTask])

\* one call of sendNextByte with a non-empty ring; the host takes the byte or not
HostTakesByte ==
    /\ outBufStart # outBufEnd
    /\ \E accepted \in BOOLEAN : Do(sendNextByte(RT, accepted))

Next ==
    \/ \E c \in ArgBytes : DeleteChunk(c)
    \/ \E c \in ArgBytes : StartChunk(c)
    \/ \E c \in ArgBytes : StopChunk(c)
    \/ StartAll
    \/ StopAll
    \/ DeleteAllCode
    \/ \E c \in ArgBytes, body \in ChunkBodies : ChunkCode(c, body)
    \/ \E msg \in BroadcastBodies : Broadcast(msg)
    \/ \E t \in TaskIx, what \in TaskReports : TaskReport(t, what)
    \/ HostTakesByte

Spec == Init /\ [][Next]_vars


(**************************************************************************)
(* SpecRing: the output ring under every emission path.  The chunk table  *)
(* and the log are those left by a few chunkCode, chunkAttribute and      *)
(* deleteChunk messages; the actions are a call of sendMessage with any   *)
(* of the inputs below, the dispatch of getAllCode, and a call of         *)
(* sendNextByte.                                                          *)
(**************************************************************************)
\* most frames queued before a further emission is considered
RingFrames == 3

\* the tables: none; chunk 0 with its Snap source and its position; the
\* same and chunk 1 with a longer body; chunk 1 stored with its GP source,
\* deleted, and stored again; chunk 0 with the longest body.  The body of a chunkAttribute message is the
\* attribute id, then one word.
RingTables ==
    LET StoreAttr(s, c, attributeID) ==
            storeChunkAttribute(s, c, 5, <<attributeID, 7, 8, 9, 10, 254>>)
        StoreCode(s, c, body) == storeCodeChunk(s, c, Len(body), body \o <<254>>)
        TableOne == StoreAttr(StoreAttr(StoreCode(Pristine, 0, StartHatBody), 0, snapSourceString),
                              0, sourcePosition)
        TableAgain == StoreCode(deleteCodeChunk(StoreAttr(StoreCode(Pristine, 1, StartHatBody),
                                                          1, gpSourceString), 1),
                                1, StartHatBody)
        \* chunk 0 with the body of a chunkCode frame of OUTBUF_SIZE bytes,
        \* as many as the receive buffer of runtime.c holds (both are 1024)
        TableLong == StoreCode(Pristine, 0, <<startHat>> \o [i \in 1..(OUTBUF_SIZE - 7) |-> 0])
    IN {Pristine, TableOne, StoreCode(TableOne, 1, GoHatBody), TableAgain, TableLong}

InitRing == \E s \in RingTables : InitWith(s, <<>>)

\* the data of sendMessage: NULL, no byte, two bytes, seven bytes
RingData == {NoData, <<>>, <<3, 1>>, <<2, 104, 101, 108, 108, 111, 33>>}

RingDo(s) ==
    /\ Len(frames) < RingFrames
    /\ SetRT(s)
    /\ UNCHANGED <<inbox, got, now>>

RingSend(msgType, chunkIndex, data) ==
    RingDo(sendMessage(RT, msgType, chunkIndex, data, NoRun))

\* the dispatch of getAllCodeMsg (runtime.c:505-507)
GetAllCode ==
    /\ sendAllReturns(RT)
    /\ RingDo(sendAllCode(RT))

RingSendNextByte ==
    /\ outBufStart # outBufEnd
    /\ \E accepted \in BOOLEAN :
           /\ SetRT(sendNextByte(RT, accepted))
           /\ UNCHANGED <<inbox, got, now>>

NextRing ==
    \/ \E data \in RingData : RingSend(outputValueMsg, 255, data)
    \/ GetAllCode
    \/ RingSendNextByte

SpecRing == InitRing /\ [][NextRing]_vars


(**************************************************************************)
(* SpecRcv: the receiver.  The IDE has sent one of the streams below;     *)
(* each tick of processMessage reads the next k bytes of it, as many as   *)
(* the host has and the buffer takes, and the clock advances between      *)
(* ticks.                                                                 *)
(**************************************************************************)
Ping == <<250, pingMsg, 0>>

\* a broadcast of length 0: its terminator position holds the length byte
StreamZeroLength == <<251, broadcastMsg, 0, 0, 0>> \o Ping

RcvStreams ==
    {\* chunkCode for chunk 0, a start hat of one word, terminated
     <<251, chunkCodeMsg, 0, 6, 0>> \o StartHatBody \o <<254>> \o Ping,
     \* the same with a last byte that is no terminator
     <<251, chunkCodeMsg, 0, 6, 0>> \o StartHatBody \o <<9>> \o Ping,
     StreamZeroLength,
     \* a broadcast of no bytes, terminated
     <<251, broadcastMsg, 0, 1, 0, 254>> \o Ping,
     \* setVar without terminator, with startChunk 0 among its bytes
     <<251, setVarMsg, 0, 4, 0, 250, startChunkMsg, 0, 9>> \o Ping,
     \* varName whose terminator comes one byte late
     <<251, varNameMsg, 1, 2, 0, 65, 66, 254>> \o Ping,
     \* setVar of variable 0 to true, terminated
     <<251, setVarMsg, 0, 3, 0, 3, 1, 254>>,
     \* a byte that starts no message, a ping, and a ping that stays incomplete
     <<7>> \o Ping \o <<250, pingMsg>>,
     \* two bytes that start no message, and a ping
     <<0, 0>> \o Ping,
     \* a start byte followed by no message type, and a ping
     <<250>> \o Ping,
     \* chunkCode for chunk 0 with no body
     <<251, chunkCodeMsg, 0, 1, 0, 254>>,
     \* varName of a declared length no buffer can hold, as many bytes as the
     \* buffer takes
     <<251, varNameMsg, 0, 200, 0>> \o [i \in 1..(RCVBUF_SIZE - 5) |-> 65],
     \* commentPosition for comment 0 with a body of two bytes
     <<251, commentPositionMsg, 0, 3, 0, 1, 2, 254>>,
     \* setVar of variable 0 with a type byte that is no type
     <<251, setVarMsg, 0, 3, 0, 9, 1, 254>>,
     \* setVar to true of a variable there is not
     <<251, setVarMsg, MAX_VARS, 3, 0, 3, 1, 254>>}

InitRcv == \E stream \in RcvStreams : InitWith(Pristine, stream)

Min(a, b) == IF a < b THEN a ELSE b

\* one call of processMessage
ProcessMessage ==
    \E accepted \in BOOLEAN, wild \in {NULL, WildPtr} :
    \E k \in 0..Min(Len(inbox), RCVBUF_SIZE - rcvByteCount) :
        /\ SetRT(processMessage(RT, accepted, SubSeq(inbox, 1, k), now, wild))
        /\ inbox' = SubSeq(inbox, k + 1, Len(inbox))
        /\ got' = got \o SubSeq(inbox, 1, k)
        /\ now' = now

\* time passes
Tick ==
    /\ now' = (now + 1) % ClockWrap
    /\ UNCHANGED <<tasks, taskCount, chunks, log, vmVars, outBuf, outBufStart, outBufEnd,
                   rcvBuf, rcvByteCount, lastRcvTime, wire, queued, frames, calls,
                   inbox, got>>

NextRcv == ProcessMessage \/ Tick

SpecRcv == InitRcv /\ [][NextRcv]_vars


(**************************************************************************)
(* SpecValue: the value encoding.  Variable 1 holds one of the values     *)
(* below; the runtime answers getVar 1, and the IDE sends the body of the *)
(* answer back as the body of setVar 0.                                   *)
(**************************************************************************)
\* integers around every byte boundary up to the ends of the 31-bit range
\* of a tagged integer, the booleans, strings from none to 500 bytes
ValueInputs ==
    LET Edges == {0, 1, 127, 128, 255, 256, 32767, 32768, 65535, 65536,
                  8388607, 8388608, 16777215, 16777216, 1073741823}
        Str(n, b) == [i \in 1..n |-> b]
    IN {[t |-> "int", v |-> n] : n \in Edges \cup {(0 - n) - 1 : n \in Edges}}
       \cup {[t |-> "bool", v |-> b] : b \in BOOLEAN}
       \cup {[t |-> "str", v |-> Str(n, b)] : n \in {0, 1, 2, 20, 498, 499, 500}, b \in {97, 254}}

InitValue == \E v \in ValueInputs : InitWith([Pristine EXCEPT !.vars[1] = v], <<>>)

\* the dispatch of getVar 1 and then of the setVar 0 the IDE makes of it
EchoValue ==
    /\ calls = <<>>
    /\ LET body == valueBody(vmVars[1])
       IN RingDo(setVariableValue(Call(sendVariableValue(RT, 1), "setVariableValue", 0, 0),
                                  0, Len(body), body \o <<254>>))

NextValue == EchoValue \/ RingSendNextByte

SpecValue == InitValue /\ [][NextValue]_vars


(**************************************************************************)
(* Claims on the task table, checked under Spec.                          *)
(**************************************************************************)
TasksFor(s, c) ==
    {i \in TaskIx : s.tasks[i].status # unusedTask /\ s.tasks[i].taskChunkIndex = c}

\* the frames of type msgType for chunk c queued so far
FramesOf(s, msgType, c) ==
    {j \in 1..Len(s.frames) :
        s.frames[j].msgType = msgType /\ s.frames[j].chunkIndex = c}

\* how many frames of type msgType for chunk c the step from s to s1 queued
Queued(s, s1, msgType, c) ==
    Cardinality(FramesOf(s1, msgType, c)) - Cardinality(FramesOf(s, msgType, c))

SameRing(s, s1) ==
    /\ s1.outBuf = s.outBuf
    /\ s1.outBufStart = s.outBufStart
    /\ s1.outBufEnd = s.outBufEnd

WildPtrs(c) == IF c \in ChunkIx THEN {NULL} ELSE {NULL, WildPtr}

\* C1: in every reachable state, for every chunk index c at most one task
\* entry has a status other than unused and taskChunkIndex = c.
C1_AtMostOneTaskPerChunk ==
    \A c \in ArgBytes : Cardinality(TasksFor(RT, c)) <= 1

\* C1 witness: every task entry is in use, and the task of entry 0 was
\* started after the task of entry 1 (entry 0 was stopped and used again).
C1_Witness ==
    /\ \A i \in TaskIx : tasks[i].status # unusedTask
    /\ tasks[0].run.pos = 1
    /\ tasks[1].run.pos = 0

\* C2 (the claim as stated): for every chunk index i, 0 included, after
\* storeCodeChunk(i, _) followed by deleteCodeChunk(i) no task entry in use
\* has taskChunkIndex = i, and chunks[i] is unused with a null code.
C2_StoreDeleteLeavesNoTask ==
    \A i \in ChunkIx, body \in ChunkBodies :
        LET s1 == storeCodeChunk(RT, i, Len(body), body \o <<254>>)
            s2 == deleteCodeChunk(s1, i)
        IN /\ TasksFor(s2, i) = {}
           /\ s2.chunks[i] = ZeroChunk

\* C6 (the claim as stated): a taskDoneMsg(c) is queued exactly once for
\* each termination of a task of c by stopTaskForChunk, stopAllTasks or
\* sendTaskDone, and a stop queues none when no task of c was running.
C6_TaskDoneOncePerTermination ==
    \A c \in ArgBytes :
        LET n == Cardinality(TasksFor(RT, c))
        IN /\ Queued(RT, stopTaskForChunk(RT, c), taskDoneMsg, c) = n
           /\ Queued(RT, stopAllTasks(RT), taskDoneMsg, c) = n
           /\ Queued(RT, deleteCodeChunk(RT, c), taskDoneMsg, c) = n
           /\ Queued(RT, sendTaskDone(RT, c, NoRun), taskDoneMsg, c) = 1

\* the taskStartedMsg frame of its run precedes frame j
StartedBefore(j) ==
    LET p == frames[j].by.pos
    IN /\ p \in 1..(j - 1)
       /\ frames[p].msgType = taskStartedMsg
       /\ frames[p].chunkIndex = frames[j].chunkIndex
       /\ frames[p].at + frames[p].n <= frames[j].at

\* C7 (the claim as stated): every frame a task run produces (a value, a
\* returned value, an error, a taskDoneMsg) is preceded in the output by
\* the taskStartedMsg of that run, whatever the ring held at the start.
C7_StartedPrecedesOutput ==
    \A j \in 1..Len(frames) : frames[j].by.src = "run" => StartedBefore(j)

\* C7 amended: every frame produced by a task run that was started when
\* the ring had room for the 3 bytes of a taskStartedMsg is preceded in
\* the output by the taskStartedMsg of that run.
C7_StartedPrecedesOutputIfRoom ==
    \A j \in 1..Len(frames) :
        (frames[j].by.src = "run" /\ frames[j].by.room) => StartedBefore(j)

\* C7 witness: a run announced by a taskStartedMsg has queued a long frame.
C7_Witness ==
    \E j \in 1..Len(frames) :
        /\ frames[j].by.src = "run"
        /\ frames[j].by.room
        /\ frames[j].msgType \in {outputValueMsg, taskErrorMsg, taskReturnedValueMsg}

\* what two calls of startTaskForChunk(i) in succession do, from a state
\* with no task of i and a free entry; started is the number of
\* taskStartedMsg(i) the first call is to queue
TwiceStarts(i, wild, started) ==
    LET s1 == startTaskForChunkW(RT, i, wild)
        s2 == startTaskForChunkW(s1, i, wild)
    IN /\ Cardinality(TasksFor(s1, i)) = 1
       /\ Cardinality({k \in TaskIx : s1.tasks[k] # RT.tasks[k]}) = 1
       /\ Queued(RT, s1, taskStartedMsg, i) = started
       /\ Len(s1.frames) = Len(RT.frames) + started
       /\ s2.tasks = s1.tasks
       /\ s2.taskCount = s1.taskCount
       /\ SameRing(s1, s2)
       /\ s2.frames = s1.frames

FreshFor(i) == TasksFor(RT, i) = {} /\ \E k \in TaskIx : tasks[k].status = unusedTask

\* C10 (the claim as stated): startTaskForChunk(i) twice in succession,
\* with no task of i and a free entry, creates exactly one task entry and
\* queues exactly one taskStartedMsg(i); the second call changes nothing.
C10_StartTwice ==
    \A i \in ArgBytes : \A wild \in WildPtrs(i) :
        FreshFor(i) => TwiceStarts(i, wild, 1)

\* C10 amended: ... creates exactly one task entry and queues one
\* taskStartedMsg(i) when the ring has room for it (hasOutputSpace(3)) and
\* none when it has not; the second call changes neither the task table,
\* taskCount, nor the output ring.
C10_StartTwiceIfRoom ==
    \A i \in ArgBytes : \A wild \in WildPtrs(i) :
        FreshFor(i) =>
            TwiceStarts(i, wild, IF hasOutputSpace(RT, 3) THEN 1 ELSE 0)

\* C10 witness: a task was started in the second entry and its
\* taskStartedMsg is the last frame queued, while the ring has wrapped.
C10_Witness ==
    /\ Len(frames) > 0
    /\ frames[Len(frames)].by.src = "start"
    /\ tasks[1].status # unusedTask
    /\ tasks[1].run.pos = Len(frames)
    /\ outBufEnd < outBufStart


(**************************************************************************)
(* Claims on the output ring, checked under SpecRing.                     *)
(**************************************************************************)
\* the bytes queued and not sent, read from the ring
Pending(s) == [k \in 1..OUTBUF_BYTES(s) |-> s.outBuf[MaskOut(s.outBufStart + k - 1)]]

\* the ring holds exactly the bytes queued that the host has not accepted
RingHolds(s) ==
    /\ Len(s.queued) = Len(s.wire) + OUTBUF_BYTES(s)
    /\ Pending(s) = SubSeq(s.queued, Len(s.wire) + 1, Len(s.queued))

FrameOf(f) == FrameBytes(f.msgType, f.chunkIndex, f.data)

\* C3: the output ring never overflows on any emission path (sendMessage,
\* sendAttributeMessage): the ring always holds, in order, exactly the bytes
\* queued and not yet sent, so none was overwritten and the count never
\* wrapped; and sendMessage is atomic: when the frame does not fit the ring
\* and its indices are unchanged, otherwise all bytes of the frame are queued.
C3_RingNeverOverflows ==
    /\ RingHolds(RT)
    /\ \A data \in RingData :
         LET s1 == sendMessage(RT, outputValueMsg, 255, data, NoRun)
             bs == FrameBytes(outputValueMsg, 255, data)
         IN IF hasOutputSpace(RT, Len(bs))
            THEN s1.queued = queued \o bs /\ s1.wire = wire /\ RingHolds(s1)
            ELSE SameRing(RT, s1) /\ s1.queued = queued /\ s1.wire = wire

\* C3 witness: sendAttributeMessage has filled the ring to its last byte
\* after waitForOutbufBytes sent bytes to make room, so that no frame fits.
C3_Witness ==
    /\ Len(frames) > 0
    /\ frames[Len(frames)].msgType = chunkAttributeMsg
    /\ OUTBUF_BYTES(RT) = OUTBUF_MASK
    /\ Len(wire) > 0

\* C4: the bytes the host accepted are a prefix of the concatenation, in the
\* order of queueing, of the frames that were queued.
C4_WireIsPrefixOfFrames ==
    IsPrefix(wire, Flatten([j \in 1..Len(frames) |-> FrameOf(frames[j])]))

\* C4 witness: the host has accepted the first frame and a part of the
\* second, and the ring has wrapped around.
C4_Witness ==
    /\ Len(frames) >= 2
    /\ Len(wire) > frames[1].n
    /\ Len(wire) < frames[1].n + frames[2].n
    /\ outBufEnd < outBufStart

\* C5: the dump of getAllCode queues, for every chunk whose table entry has
\* non-null code, exactly one chunkCode frame carrying the code words of the
\* chunk, whatever the ring holds when the dump begins.
C5_DumpQueuesEveryChunk ==
    sendAllReturns(RT) =>
        \A c \in ChunkIx :
            chunks[c].code # NULL =>
                LET s1 == sendAllCode(RT)
                IN Cardinality({j \in (Len(frames) + 1)..Len(s1.frames) :
                       /\ s1.frames[j].msgType = chunkCodeMsg
                       /\ s1.frames[j].chunkIndex = c
                       /\ s1.frames[j].data = log[chunks[c].code].body}) = 1

\* C8: every long frame queued (by sendMessage with data and by
\* sendAttributeMessage) is 0xFB, msgType, argByte, lenLo, lenHi, body[N],
\* 0xFE with lenLo | (lenHi << 8) = N + 1.
C8_LongFramesTerminated ==
    \A j \in 1..Len(frames) :
        frames[j].data # NoData =>
            LET b == SubSeq(queued, frames[j].at, frames[j].at + frames[j].n - 1)
            IN /\ Len(b) >= 6
               /\ b[1] = 251
               /\ b[Len(b)] = 254
               /\ b[4] + (256 * b[5]) = Len(b) - 5

(**************************************************************************)
(* Claims on the receiver, checked under SpecRcv.                         *)
(**************************************************************************)
\* the bytes of the receive buffer that count
Live(s) == [k \in 1..s.rcvByteCount |-> s.rcvBuf[k - 1]]

MsgLength(s) == (s.rcvBuf[4] * 256) + s.rcvBuf[3]

\* the head of the buffer is a long frame
LongHead(s) == s.rcvByteCount > 0 /\ s.rcvBuf[0] = 251

\* all 5 + msgLength bytes of the long frame are in the buffer
LongComplete(s) == s.rcvByteCount >= 5 /\ s.rcvByteCount >= 5 + MsgLength(s)

\* offset i holds a start byte, followed by a legal message type if by any byte
StartAt(s, i) ==
    /\ s.rcvBuf[i] \in {250, 251}
    /\ (i + 1 < s.rcvByteCount) => s.rcvBuf[i + 1] \in 1..32

\* s2 is s1 with the buffer cut down to its first start byte at offset 1 or
\* later, or emptied when there is none
ResyncedFromOne(s1, s2) ==
    LET starts == {i \in 1..(s1.rcvByteCount - 1) : StartAt(s1, i)}
    IN IF starts = {} THEN s2.rcvByteCount = 0
       ELSE \E o \in starts :
               /\ \A i \in starts : o <= i
               /\ Live(s2) = SubSeq(Live(s1), o + 1, s1.rcvByteCount)

\* nothing but the receive buffer differs between s1 and s2
NothingDispatched(s1, s2) ==
    /\ s2.calls = s1.calls
    /\ s2.tasks = s1.tasks /\ s2.taskCount = s1.taskCount
    /\ s2.chunks = s1.chunks /\ s2.log = s1.log /\ s2.vars = s1.vars
    /\ s2.frames = s1.frames /\ s2.queued = s1.queued

\* C9: a long frame at the head of the receive buffer whose terminator
\* position, offset 5 + msgLength - 1, does not hold 0xFE is never
\* dispatched, for every msgLength including 0: in every tick, however many
\* bytes it reads, no handler is invoked and no table changes, and when the
\* frame is complete the receiver resyncs from offset 1.
C9_UnterminatedNeverDispatched ==
    \A accepted \in BOOLEAN :
    \A k \in 0..Min(Len(inbox), RCVBUF_SIZE - rcvByteCount) :
        LET s1 == readBytes(sendNextByte(RT, accepted), SubSeq(inbox, 1, k), now)
            s2 == dispatchHead(s1, now, NULL)
        IN (LongHead(s1) /\ ~(LongComplete(s1) /\ s1.rcvBuf[5 + MsgLength(s1) - 1] = 254)) =>
               /\ NothingDispatched(s1, s2)
               /\ LongComplete(s1) => ResyncedFromOne(s1, s2)

\* C9 witness: the long frame of length 0 was read and discarded, and the
\* ping that followed it is the only message that was dispatched.
C9_Witness ==
    /\ got = StreamZeroLength
    /\ rcvByteCount = 0
    /\ Len(calls) = 1
    /\ calls[1].fn = "ping"


(**************************************************************************)
(* Claims on the value encoding, checked under SpecValue.                 *)
(**************************************************************************)
\* C11: once the body sendValueMessage makes of the value v of variable 1
\* has been given to setVariableValue as the body of a setVar for
\* variable 0, variable 0 holds a value equal to v, for v an integer, a
\* boolean or a string of at most 499 bytes.
C11_ValueRoundTrip ==
    (/\ calls # <<>>
     /\ \/ vmVars[1].t \in {"int", "bool"}
        \/ vmVars[1].t = "str" /\ Len(vmVars[1].v) <= 499)
    => vmVars[0] = vmVars[1]

\* a string of 499 bytes and the lowest integer have made the round trip
C11_Witness ==
    /\ calls # <<>>
    /\ vmVars[0] = vmVars[1]
    /\ \/ vmVars[1].t = "str" /\ Len(vmVars[1].v) = 499
       \/ vmVars[1] = [t |-> "int", v |-> 0 - 1073741824]

(**************************************************************************)
(* Claims on resynchronisation, checked under SpecRcv.                    *)
(**************************************************************************)
\* the ping replies queued so far
PingReplies == FramesOf(RT, pingMsg, 0)

\* C12: when the stream is some leading bytes followed by a ping, no
\* command other than the ping is ever executed, the ping is dispatched at
\* most once, and once all the bytes were read and have left the buffer
\* the ping was dispatched and exactly one ping reply was queued, however
\* the bytes were split across ticks.
C12_ResyncRecoversNextFrame ==
    \A lead \in {<<0, 0>>, <<250>>} :
        (got \o inbox = lead \o Ping) =>
            /\ Len(calls) <= 1
            /\ \A j \in 1..Len(calls) : calls[j].fn = "ping"
            /\ (inbox = <<>> /\ rcvByteCount = 0) =>
                   (Len(calls) = 1 /\ Cardinality(PingReplies) = 1)

\* C17: in every tick in which the buffer holds at least three bytes, a
\* start byte at its head and after it a byte outside [0x01, 0x20], the
\* dispatcher executes no command and cuts the buffer down to the first
\* start byte at offset 1 or later.
C17_BadTypeResyncs ==
    \A accepted \in BOOLEAN, wild \in {NULL, WildPtr} :
    \A k \in 0..Min(Len(inbox), RCVBUF_SIZE - rcvByteCount) :
        LET s1 == readBytes(sendNextByte(RT, accepted), SubSeq(inbox, 1, k), now)
            s2 == dispatchHead(s1, now, wild)
        IN (/\ s1.rcvByteCount >= 3
            /\ s1.rcvBuf[0] \in {250, 251}
            /\ s1.rcvBuf[1] \notin 1..32)
           => NothingDispatched(s1, s2) /\ ResyncedFromOne(s1, s2)

(**************************************************************************)
(* Claims on the chunk table and the log, checked under Spec.             *)
(**************************************************************************)
\* the records the step from s to s1 appended to the log
Appended(s, s1) == SubSeq(s1.log, Len(s.log) + 1, Len(s1.log))

\* the chunks in use in s
InUse(s) == {i \in ChunkIx : s.chunks[i].chunkType # unusedChunk}

\* how many of the records recs are a chunkDeleted record for chunk i
DeletedCount(recs, i) ==
    Cardinality({j \in 1..Len(recs) : recs[j].recType = chunkDeleted /\ recs[j].id = i})

\* C13: deleteAllCode appends exactly one chunkDeleted record for each chunk
\* index that held a chunk when it was dispatched and none for an index
\* that was unused, and leaves every chunk-table entry unused.
C13_DeleteAllDeletesChunksInUse ==
    LET s1 == deleteAllChunks(RT)
    IN /\ \A i \in ChunkIx :
              DeletedCount(Appended(RT, s1), i) = (IF i \in InUse(RT) THEN 1 ELSE 0)
       /\ InUse(s1) = {}

\* C13 as the code has it: deleteAllCode appends exactly one chunkDeleted
\* record for every chunk index, in the order of the indices and whether
\* or not the index held a chunk, appends nothing else, and leaves every
\* chunk-table entry unused with a null code pointer.
C13_DeleteAllDeletesEveryIndex ==
    LET s1 == deleteAllChunks(RT)
        recs == Appended(RT, s1)
    IN /\ Len(recs) = MAX_CHUNKS
       /\ \A i \in ChunkIx : recs[i + 1].recType = chunkDeleted /\ recs[i + 1].id = i
       /\ \A i \in ChunkIx : s1.chunks[i] = ZeroChunk

\* C13 witness: deleteAllCode was dispatched right after a chunkCode for one
\* chunk while another index was unused: the log ends with that chunkCode
\* record and one chunkDeleted record for every index.
C13_Witness ==
    /\ Len(log) > MAX_CHUNKS
    /\ log[Len(log) - MAX_CHUNKS].recType = chunkCode
    /\ \A i \in ChunkIx : LET r == log[Len(log) - MAX_CHUNKS + i + 1]
                          IN r.recType = chunkDeleted /\ r.id = i
    /\ \E i \in ChunkIx : DeletedCount(log, i) = 1 /\
           \A j \in 1..Len(log) : log[j].recType = chunkCode => log[j].id # i
    /\ \A i \in ChunkIx : chunks[i] = ZeroChunk

(**************************************************************************)
(* Claims on broadcasts and startAll, checked under Spec.                 *)
(**************************************************************************)
\* the broadcast-hat chunks of s whose literal string is msg: the hats in
\* the chunk table are those of GoHatBody, whose string is "go"
Receivers(s, msg) ==
    {i \in ChunkIx :
        /\ s.chunks[i].chunkType = broadcastHat
        /\ s.chunks[i].code \in 1..Len(s.log)
        /\ s.log[s.chunks[i].code].body = PadWords(Tail(GoHatBody))
        /\ msg = <<103, 111>>}

\* the chunk indices that have a task in s
Running(s) == {s.tasks[t].taskChunkIndex : t \in {u \in TaskIx : s.tasks[u].status # unusedTask}}

FreeEntries(s) == {t \in TaskIx : s.tasks[t].status = unusedTask}

\* how many members of the set C are below i
Rank(C, i) == Cardinality({j \in C : j < i})

\* the step from s to s1 left every task that was in the table as it was
TasksKept(s, s1) ==
    \A t \in TaskIx : s.tasks[t].status # unusedTask => s1.tasks[t] = s.tasks[t]

\* C14: a broadcast with body m starts a task for exactly the broadcast-hat
\* chunks whose string equals m and that have no task already, each gets
\* exactly one taskStartedMsg, and the same broadcast dispatched again
\* creates no task and queues no taskStartedMsg.
C14_BroadcastStartsReceivers ==
    \A msg \in BroadcastBodies :
        LET s1 == startReceiversOfBroadcast(RT, msg)
            s2 == startReceiversOfBroadcast(s1, msg)
            C == Receivers(RT, msg) \ Running(RT)
        IN /\ Running(s1) = Running(RT) \cup C
           /\ TasksKept(RT, s1)
           /\ \A i \in ChunkIx :
                  Queued(RT, s1, taskStartedMsg, i) = (IF i \in C THEN 1 ELSE 0)
           /\ s2.tasks = s1.tasks /\ s2.taskCount = s1.taskCount
           /\ \A i \in ChunkIx : Queued(s1, s2, taskStartedMsg, i) = 0

\* C14 as the code has it: of the broadcast-hat chunks whose string equals
\* m and that have no task, the first ones in index order get a task, as
\* many as there are free task entries; the tasks that existed stay as
\* they were; the k-th chunk started gets exactly one taskStartedMsg when
\* the ring has more than 3 bytes free after the k - 1 frames before it,
\* and none otherwise; the same broadcast dispatched again creates no task
\* and queues no taskStartedMsg.
C14_BroadcastStartsReceiversIfRoom ==
    \A msg \in BroadcastBodies :
        LET s1 == startReceiversOfBroadcast(RT, msg)
            s2 == startReceiversOfBroadcast(s1, msg)
            C == Receivers(RT, msg) \ Running(RT)
            E == {i \in C : Rank(C, i) < Cardinality(FreeEntries(RT))}
            free == OUTBUF_MASK - OUTBUF_BYTES(RT)
        IN /\ Running(s1) = Running(RT) \cup E
           /\ \A c \in E : Cardinality(TasksFor(s1, c)) = 1
           /\ TasksKept(RT, s1)
           /\ \A i \in ChunkIx :
                  Queued(RT, s1, taskStartedMsg, i) =
                      (IF i \in E /\ free - (3 * Rank(E, i)) > 3 THEN 1 ELSE 0)
           /\ s2.tasks = s1.tasks /\ s2.taskCount = s1.taskCount
           /\ \A i \in ChunkIx : Queued(s1, s2, taskStartedMsg, i) = 0

\* C14 witness: every chunk is a hat receiving "go", each has its task, and
\* a taskStartedMsg was queued for each: the state after a broadcast of
\* "go" with the ring empty.
C14_Witness ==
    /\ Receivers(RT, <<103, 111>>) = ChunkIx
    /\ Running(RT) = ChunkIx
    /\ \A i \in ChunkIx : Cardinality(FramesOf(RT, taskStartedMsg, i)) = 1
    /\ outBufStart = 0

\* the start-hat and when-condition-hat chunks of s
Hats(s) == {i \in ChunkIx : s.chunks[i].chunkType \in {startHat, whenConditionHat}}

\* C15: after startAll, when the start-hat and when-condition-hat chunks are
\* at most MAX_TASKS, the chunks that have a task are exactly those hats,
\* one task each, every task running with ip at the header-words offset,
\* sp = 0 and fp = 0; the tasks of other chunks are gone.
C15_StartAllStartsHats ==
    LET s1 == startAll(RT)
    IN Cardinality(Hats(RT)) <= MAX_TASKS =>
           /\ Running(s1) = Hats(RT)
           /\ \A c \in Hats(RT) : Cardinality(TasksFor(s1, c)) = 1
           /\ \A t \in TaskIx :
                  s1.tasks[t].status # unusedTask =>
                      /\ s1.tasks[t].status = running
                      /\ s1.tasks[t].ip = PERSISTENT_HEADER_WORDS
                      /\ s1.tasks[t].sp = 0
                      /\ s1.tasks[t].fp = 0

\* C15 witness: a start hat and a when-condition hat are installed, each
\* has its task, started in index order into the first entries.
C15_Witness ==
    /\ \E i \in ChunkIx : chunks[i].chunkType = startHat
    /\ \E i \in ChunkIx : chunks[i].chunkType = whenConditionHat
    /\ Hats(RT) = ChunkIx
    /\ \A i \in ChunkIx : tasks[i].status = running /\ tasks[i].taskChunkIndex = i
    /\ \A i \in ChunkIx : Cardinality(FramesOf(RT, taskStartedMsg, i)) = 1

(**************************************************************************)
(* Claims on the task table, continued; checked under Spec.               *)
(**************************************************************************)
\* the frames the step from s to s1 queued, as <<type, index, data>>
NewFrames(s, s1) ==
    [j \in 1..(Len(s1.frames) - Len(s.frames)) |->
        LET f == s1.frames[Len(s.frames) + j]
        IN <<f.msgType, f.chunkIndex, f.data>>]

\* the outputValueMsg that carries "No free task entries"
NoFreeTaskFrame == <<outputValueMsg, 255, <<2>> \o StrNoFreeTask>>

\* C16: startTaskForChunk(i) with no task for i and every task entry in use
\* leaves the task table and taskCount unchanged, queues no taskStartedMsg,
\* and its only output is one outputValueMsg with "No free task entries".
C16_NoFreeTaskEntries ==
    \A i \in ArgBytes : \A wild \in WildPtrs(i) :
        (TasksFor(RT, i) = {} /\ FreeEntries(RT) = {}) =>
            LET s1 == startTaskForChunkW(RT, i, wild)
            IN /\ s1.tasks = tasks /\ s1.taskCount = taskCount
               /\ NewFrames(RT, s1) = <<NoFreeTaskFrame>>

\* C16 as the code has it: the task table and taskCount are unchanged and
\* no taskStartedMsg is queued; the outputValueMsg with "No free task
\* entries" is queued when the ring has room for its 26 bytes, and when it
\* has not, nothing is queued and the ring stays as it was.
C16_NoFreeTaskEntriesIfRoom ==
    \A i \in ArgBytes : \A wild \in WildPtrs(i) :
        (TasksFor(RT, i) = {} /\ FreeEntries(RT) = {}) =>
            LET s1 == startTaskForChunkW(RT, i, wild)
            IN /\ s1.tasks = tasks /\ s1.taskCount = taskCount
               /\ IF hasOutputSpace(RT, 5 + 1 + Len(StrNoFreeTask))
                  THEN /\ NewFrames(RT, s1) = <<NoFreeTaskFrame>>
                       /\ OUTBUF_BYTES(s1) = OUTBUF_BYTES(RT) + 5 + 1 + Len(StrNoFreeTask)
                  ELSE NewFrames(RT, s1) = <<>> /\ SameRing(RT, s1)

\* C16 witness: every task entry is in use, and the last frame queued is
\* the outputValueMsg with "No free task entries".
C16_Witness ==
    /\ FreeEntries(RT) = {}
    /\ frames # <<>>
    /\ LET f == frames[Len(frames)]
       IN <<f.msgType, f.chunkIndex, f.data>> = NoFreeTaskFrame

\* the task entries in use
UsedEntries == TaskIx \ FreeEntries(RT)

\* C18: taskCount is one plus the highest index of a task entry in use, 0
\* when there is none: every entry at taskCount or above is unused and
\* the entry at taskCount - 1 is in use whenever taskCount > 0.
C18_TaskCountTight ==
    /\ \A t \in TaskIx : t >= taskCount => tasks[t].status = unusedTask
    /\ taskCount > 0 => (taskCount - 1) \in UsedEntries

\* C18 as the code has it: taskCount lies in 0..MAX_TASKS and every entry
\* at taskCount or above is zeroed; stopTaskForChunk takes one off
\* taskCount when it clears the entry at taskCount - 1 and leaves it alone
\* otherwise, stopAllTasks sets it to 0, and startTaskForChunk never
\* lowers it.
C18_TaskCountBounds ==
    /\ taskCount \in 0..MAX_TASKS
    /\ \A t \in TaskIx : t >= taskCount => tasks[t] = ZeroTask
    /\ stopAllTasks(RT).taskCount = 0
    /\ \A c \in ArgBytes :
           /\ stopTaskForChunk(RT, c).taskCount \in {taskCount, taskCount - 1}
           /\ stopTaskForChunk(RT, c).taskCount = taskCount - 1 =>
                  /\ taskCount > 0
                  /\ tasks[taskCount - 1].taskChunkIndex = c
                  /\ \A t \in 0..(taskCount - 2) : tasks[t].taskChunkIndex # c
           /\ startTaskForChunk(RT, c).taskCount >= taskCount

\* C18 witness: two tasks were started and stopped in the order of their
\* start: no entry is in use, the entry at taskCount - 1 is unused, and the
\* two taskDoneMsg are the last frames queued.
C18_Witness ==
    /\ taskCount = 1
    /\ \A t \in TaskIx : tasks[t] = ZeroTask
    /\ Len(frames) >= 2
    /\ frames[Len(frames)].msgType = taskDoneMsg
    /\ frames[Len(frames) - 1].msgType = taskDoneMsg
    /\ frames[Len(frames)].by.src = "run"
    /\ frames[Len(frames) - 1].by.src = "run"

(**************************************************************************)
(* Claims on the chunk table under every chunkCode body, checked under    *)
(* SpecRcv.                                                               *)
(**************************************************************************)
\* C19: every chunk-table entry is well formed: its type is the unused
\* sentinel and its code reference is null, or its type is one of the six
\* types of a chunk in use (command stack 1, reporter 2, function 3, start
\* hat, when-condition hat, broadcast hat) and its code reference is not
\* null, whatever chunkCode bodies the IDE has sent, and it stays so when
\* the next chunkCode has no body, the body 0, or a body whose first byte
\* is no chunk type.
C19_ChunkEntriesWellFormed ==
    LET WellFormed(s) ==
            \A i \in ChunkIx :
                \/ s.chunks[i].chunkType = unusedChunk /\ s.chunks[i].code = NULL
                \/ /\ s.chunks[i].chunkType \in {1, 2, 3, startHat, whenConditionHat,
                                                 broadcastHat}
                   /\ s.chunks[i].code # NULL
    IN /\ WellFormed(RT)
       /\ \A i \in ChunkIx, body \in {<<>>, <<0>>, <<9, 0, 0, 0, 0>>} :
              WellFormed(storeCodeChunk(RT, i, Len(body), body \o <<254>>))

(**************************************************************************)
(* Claims on the chunk table and the log, continued; checked under Spec.  *)
(**************************************************************************)
\* the positions in the log of s of the records of type recType for chunk i
RecordsOf(s, recType, i) ==
    {p \in 1..Len(s.log) : s.log[p].recType = recType /\ s.log[p].id = i}

\* the code reference the log of s gives chunk i: the latest chunkCode
\* record for i when no chunkDeleted record for i follows it, else null
CodeByLog(s, i) ==
    LET codes == RecordsOf(s, chunkCode, i)
        last == CHOOSE p \in codes : \A q \in codes : q <= p
    IN IF codes # {} /\ \A d \in RecordsOf(s, chunkDeleted, i) : d < last
       THEN last ELSE NULL

AgreesWithLog(s) == \A i \in ChunkIx : s.chunks[i].code = CodeByLog(s, i)

\* C20: after any sequence of chunkCode, deleteChunk and deleteAllCode
\* messages, and after one more of them, chunks[i].code references the
\* latest chunkCode record appended for i if no chunkDeleted record for i
\* was appended after it, and is null otherwise, for every index i.
C20_ChunkTableAgreesWithLog ==
    /\ AgreesWithLog(RT)
    /\ AgreesWithLog(deleteAllChunks(RT))
    /\ \A c \in ArgBytes :
           /\ AgreesWithLog(deleteCodeChunk(RT, c))
           /\ \A body \in ChunkBodies :
                  AgreesWithLog(storeCodeChunk(RT, c, Len(body), body \o <<254>>))

\* C20 witness: a chunk was deleted and then stored again, and its code
\* reference is the record of the second message.
C20_Witness ==
    \E i \in ChunkIx :
        /\ Len(log) = 2
        /\ log[1].recType = chunkDeleted /\ log[1].id = i
        /\ log[2].recType = chunkCode /\ log[2].id = i
        /\ chunks[i].code = 2

(**************************************************************************)
(* Claims on skipToStartByteAfter, checked under SpecRcv.                 *)
(**************************************************************************)
\* offset i holds a start byte that is followed by a legal message type
TypedStartAt(s, i) ==
    /\ s.rcvBuf[i] \in {250, 251}
    /\ i + 1 < s.rcvByteCount
    /\ s.rcvBuf[i + 1] \in 1..32

\* s2 is s1 with the buffer cut down to the first of the offsets starts,
\* or emptied when there is none
CutTo(s1, s2, starts) ==
    /\ s2.rcvByteCount \in 0..RCVBUF_SIZE
    /\ (s2.rcvByteCount = 0) <=> (starts = {})
    /\ \A o \in starts :
           (\A i \in starts : o <= i) =>
               /\ s2.rcvByteCount = s1.rcvByteCount - o
               /\ Live(s2) = SubSeq(Live(s1), o + 1, s1.rcvByteCount)

\* the buffers a tick can hold once it has read its bytes
Buffers ==
    {readBytes(RT, SubSeq(inbox, 1, n), now) :
        n \in 0..Min(Len(inbox), RCVBUF_SIZE - rcvByteCount)}

\* C21 as stated: skipToStartByteAfter(k) cuts the buffer down to the first
\* start byte at offset k or later that is followed by a legal message
\* type, keeping the bytes after it in order, and empties the buffer
\* exactly when there is no such byte.
C21_SkipToTypedStart ==
    \A s \in Buffers : \A k \in 0..RCVBUF_SIZE :
        CutTo(s, skipToStartByteAfter(s, k),
              {i \in k..(s.rcvByteCount - 1) : TypedStartAt(s, i)})

\* C21: skipToStartByteAfter(k) cuts the buffer down to the first offset k
\* or later that holds 0xFA or 0xFB and is either the last byte of the
\* buffer or followed by a message type in [0x01, 0x20]; the bytes after it
\* are kept in order and rcvByteCount drops by that offset; the buffer is
\* emptied exactly when there is no such offset, and rcvByteCount stays
\* within 0..RCVBUF_SIZE.
C21_SkipToStart ==
    \A s \in Buffers : \A k \in 0..RCVBUF_SIZE :
        CutTo(s, skipToStartByteAfter(s, k),
              {i \in k..(s.rcvByteCount - 1) : StartAt(s, i)})

\* C21 witness: a byte that starts no message and a start byte were read in
\* one tick, and the resync from offset 1 kept the start byte, which no
\* message type follows yet.
C21_Witness ==
    /\ got = <<7, 250>>
    /\ rcvByteCount = 1
    /\ rcvBuf[0] = 250

(**************************************************************************)
(* Claims on the receive timeout, checked under SpecRcv.                  *)
(**************************************************************************)
\* the head of the buffer is a short or long frame that is not complete
IncompleteHead(s) ==
    /\ s.rcvByteCount > 0
    /\ \/ s.rcvBuf[0] = 250 /\ s.rcvByteCount < 3
       \/ s.rcvBuf[0] = 251 /\ ~LongComplete(s)

\* the least time that can have passed between the last byte read and usecs
Elapsed(s, usecs) ==
    IF usecs >= s.lastRcvTime THEN usecs - s.lastRcvTime
    ELSE (usecs + ClockWrap) - s.lastRcvTime

\* C22: when the head of the receive buffer is an incomplete short or long
\* frame, the buffer full of a long frame of too great a length included,
\* and more than the timeout has passed since the last byte was read, a
\* call of processMessage that reads no byte resyncs from offset 1, which
\* takes the start byte of the frame out of the buffer.
C22_IncompleteFrameTimesOut ==
    \A accepted \in BOOLEAN :
        LET s1 == readBytes(sendNextByte(RT, accepted), <<>>, now)
            s2 == dispatchHead(s1, now, NULL)
        IN (IncompleteHead(s1) /\ Elapsed(s1, now) > RcvTimeout)
           => ResyncedFromOne(s1, s2)

(**************************************************************************)
(* Claims on waitForOutbufBytes, checked under SpecRing.                  *)
(**************************************************************************)
\* the free room of the ring
FreeRoom(s) == OUTBUF_MASK - OUTBUF_BYTES(s)

\* C23: with a host that accepts every byte offered, the call
\* waitForOutbufBytes(5 + 4*words) that sendAllCode makes for a chunk in
\* use returns, from every state of the ring, and on return the ring has at
\* least that many bytes free.
C23_WaitReturnsWithRoom ==
    \A c \in ChunkIx :
        chunks[c].code # NULL =>
            LET bytesNeeded == 5 + (4 * recordWords(RT, chunks[c].code))
            IN FreeRoom(waitForOutbufBytes(RT, bytesNeeded)) >= bytesNeeded

(**************************************************************************)
(* Claims on malformed payloads, checked under SpecRcv.                   *)
(**************************************************************************)
\* the head of the buffer is a complete long frame with its terminator
LongTerminated(s) ==
    LongHead(s) /\ LongComplete(s) /\ s.rcvBuf[5 + MsgLength(s) - 1] = 254

\* the payload of the frame at the head is one the handler has to ignore
Malformed(s) ==
    \/ s.rcvBuf[1] = commentPositionMsg /\ MsgLength(s) - 1 # 4
    \/ s.rcvBuf[1] = setVarMsg /\ (s.rcvBuf[5] \notin {1, 2, 3} \/ s.rcvBuf[2] >= MAX_VARS)

\* C24: in every tick that dispatches a terminated commentPosition frame
\* whose body is not 4 bytes, or a terminated setVar frame whose type byte is
\* none of 1, 2, 3 or whose variable index is MAX_VARS or more, no record is
\* appended, every variable keeps its value, the chunk table, the task table
\* and the output ring stay as they are, and the frame leaves the buffer:
\* what remains are bytes that came after it.
C24_MalformedPayloadIgnored ==
    \A accepted \in BOOLEAN, wild \in {NULL, WildPtr} :
    \A k \in 0..Min(Len(inbox), RCVBUF_SIZE - rcvByteCount) :
        LET s1 == readBytes(sendNextByte(RT, accepted), SubSeq(inbox, 1, k), now)
            s2 == dispatchHead(s1, now, wild)
            rest == s1.rcvByteCount - (5 + MsgLength(s1))
        IN (LongTerminated(s1) /\ Malformed(s1)) =>
               /\ s2.log = s1.log
               /\ s2.vars = s1.vars
               /\ s2.chunks = s1.chunks
               /\ s2.tasks = s1.tasks /\ s2.taskCount = s1.taskCount
               /\ SameRing(s1, s2)
               /\ s2.frames = s1.frames /\ s2.queued = s1.queued
               /\ s2.rcvByteCount <= rest
               /\ Live(s2) = SubSeq(Live(s1), (s1.rcvByteCount - s2.rcvByteCount) + 1,
                                    s1.rcvByteCount)

\* C24 witness: a malformed commentPosition or setVar frame was read whole,
\* its handler was called, and the buffer is empty again with no record in
\* the log and no variable changed.
C24_Witness ==
    /\ Len(got) = 8
    /\ got[2] \in {commentPositionMsg, setVarMsg}
    /\ got[2] = setVarMsg => (got[6] = 9 \/ got[3] = MAX_VARS)
    /\ got[2] = commentPositionMsg => got[4] = 3
    /\ Len(calls) = 1
    /\ calls[1].fn \in {"storeCommentPosition", "setVariableValue"}
    /\ rcvByteCount = 0
    /\ log = <<>>
    /\ vmVars = Pristine.vars

(**************************************************************************)
(* Claims on the binding of tasks to chunks, checked under Spec.          *)
(**************************************************************************)
\* C25: in every reachable state every task entry whose status is not
\* unused has a taskChunkIndex below MAX_CHUNKS, the chunk-table entry of
\* that index is in use (its code reference is not null), and the code
\* reference of the task is that of the chunk-table entry.
C25_TasksBoundToLiveChunks ==
    \A t \in TaskIx :
        tasks[t].status # unusedTask =>
            /\ tasks[t].taskChunkIndex < MAX_CHUNKS
            /\ chunks[tasks[t].taskChunkIndex].code # NULL
            /\ tasks[t].code = chunks[tasks[t].taskChunkIndex].code

========================================================================
